---- MODULE Spec2Model ----
(***************************************************************************)
(* Heap based segment tree for stab queries (stab_query_segment_tree.py).  *)
(* The module models SegmentTree (constructor loop, insert, stab_query,    *)
(* complete, lowest_incomplete) and main() with its persisted files.       *)
(***************************************************************************)
EXTENDS Integers, Sequences, FiniteSets, TLC

VARIABLES points, tree, N, segments, phase, last, fs, run

vars == <<points, tree, N, segments, phase, last, fs, run>>

(* ------------------------------ bounds -------------------------------- *)

\* largest number of distinct coordinates of a tree
MaxN == 8
\* largest number of segments a constructor call inserts
MaxSegs == 2
\* trees of at most this many coordinates take MaxSegs segments, larger ones one
DeepN == 4

(* ------------------------- arithmetic helpers ------------------------- *)

\* int(a / b) for b > 0: Python's int() truncates the float toward zero
IntTrunc(a, b) == IF a >= 0 THEN a \div b ELSE -((-a) \div b)

RECURSIVE Pow2(_)
Pow2(k) == IF k <= 0 THEN 1 ELSE 2 * Pow2(k - 1)

\* x & -x on Python's unbounded two's complement integers
RECURSIVE LowBit(_)
LowBit(x) == IF x = 0 THEN 0 ELSE IF x % 2 = 1 THEN 1 ELSE 2 * LowBit(x \div 2)

\* the exponent k of a power of two 2^k
RECURSIVE Log2Exact(_)
Log2Exact(x) == IF x <= 1 THEN 0 ELSE 1 + Log2Exact(x \div 2)

\* fixed-point scale of the float table below
Scale == 1000000

\* 2 ** (1 + math.log(2 ** k)) for k = 0, 1, ..., times Scale, rounded
\* (math.log is the natural logarithm)
PowOnePlusLn == <<2000000, 3233613, 5228128, 8452872, 13666659, 22096346, 35725519>>

\* the least integers x with math.log(x) >= 1, 2, 3, ... (ceilings of e^k)
ExpCeil == <<3, 8, 21, 55, 149, 404, 1097>>

\* math.floor(math.log(x)) for an integer x >= 1: the number of the entries
\* of ExpCeil that are at most x
RECURSIVE FloorLnFrom(_, _)
FloorLnFrom(x, k) ==
    IF k > Len(ExpCeil) THEN k - 1
    ELSE IF x < ExpCeil[k] THEN k - 1
    ELSE FloorLnFrom(x, k + 1)

FloorLn(x) == FloorLnFrom(x, 1)

(* ----------------------------- the tree ------------------------------- *)

\* bisect.bisect_right(a, x) on a sorted list a (1-based sequence here)
RECURSIVE BisectLoop(_, _, _, _)
BisectLoop(a, x, lo, hi) ==
    IF lo < hi
    THEN LET mid == (lo + hi) \div 2
         IN  IF x < a[mid + 1] THEN BisectLoop(a, x, lo, mid)
                               ELSE BisectLoop(a, x, mid + 1, hi)
    ELSE lo

bisect_right(a, x) == BisectLoop(a, x, 0, Len(a))

\* self.__total
Total(n) == 2 * n - 1

\* a variant of NewTree: the array holds total entries only
NewTree_NoSlack(n) == [i \in 0 .. (Total(n) - 1) |-> 0]

\* self.__tree as allocated: indices 0 .. total + 1, all zero
NewTree(n) == [i \in 0 .. (Total(n) + 1) |-> 0]

\* a variant of OffsetN: the offset without the final - 1
OffsetN_NoMinusOne(n) == IntTrunc(Total(n), 2)

\* self.__N
OffsetN(n) == IntTrunc(Total(n), 2) - 1

\* the compressed endpoint of a raw position
Compress(pts, x) == bisect_right(pts, x) + 1

\* a Python list index: negative indices count from the end
ListIndex(t, i) == IF i < 0 THEN i + Cardinality(DOMAIN t) ELSE i

InRange(t, i) == ListIndex(t, i) \in DOMAIN t

\* a variant of TreeInc: the new count is taken from the parent's count
TreeInc_FromParent(t, i) == [t EXCEPT ![ListIndex(t, i)] = t[i \div 2] + 1]

\* self.__tree[i] += 1
TreeInc(t, i) == [t EXCEPT ![ListIndex(t, i)] = @ + 1]

\* a variant of InsertCond: the loop runs once more
InsertCond_OffByOne(l, r) == l <= r + 1

\* the loop condition of insert
InsertCond(l, r) == l <= r

\* the advance of the left boundary
NextL(l) == (l + 1) \div 2

\* a variant of NextR: the right boundary moves to its own parent
NextR_NoStepLeft(r) == r \div 2

\* the advance of the right boundary
NextR(r) == (r - 1) \div 2

LeftBump(l) == l % 2 = 1

RightBump(r) == r % 2 = 0

\* the while loop of insert; st = [tree, err, steps, writes]
RECURSIVE InsertLoop(_, _, _)
InsertLoop(st, l, r) ==
    IF ~InsertCond(l, r) THEN st
    ELSE IF LeftBump(l) /\ ~InRange(st.tree, l)
         THEN [st EXCEPT !.err = "IndexError", !.steps = @ + 1]
    ELSE LET t1 == IF LeftBump(l) THEN TreeInc(st.tree, l) ELSE st.tree
             w1 == IF LeftBump(l) THEN Append(st.writes, l) ELSE st.writes
         IN  IF RightBump(r) /\ ~InRange(t1, r)
             THEN [tree |-> t1, err |-> "IndexError",
                   steps |-> st.steps + 1, writes |-> w1]
             ELSE LET t2 == IF RightBump(r) THEN TreeInc(t1, r) ELSE t1
                      w2 == IF RightBump(r) THEN Append(w1, r) ELSE w1
                  IN  InsertLoop([tree |-> t2, err |-> "ok",
                                  steps |-> st.steps + 1, writes |-> w2],
                                 NextL(l), NextR(r))

\* insert(startpoint, endpoint) on a tree with offset off
insert(t, off, startpoint, endpoint) ==
    InsertLoop([tree |-> t, err |-> "ok", steps |-> 0, writes |-> <<>>],
               startpoint + off, endpoint + off)

\* one iteration of the constructor's loop over segments
InsertSegmentOp(pts, t, off, seg) ==
    insert(t, off, Compress(pts, seg[1]), Compress(pts, seg[2]))

\* the constructor's loop over segments; st = [tree, err]
RECURSIVE BuildLoop(_, _, _, _)
BuildStep(pts, off, segs, res) ==
    IF res.err # "ok" THEN [tree |-> res.tree, err |-> res.err]
    ELSE BuildLoop(pts, [tree |-> res.tree, err |-> "ok"], off, Tail(segs))

BuildLoop(pts, st, off, segs) ==
    IF segs = <<>> THEN st
    ELSE BuildStep(pts, off, segs, InsertSegmentOp(pts, st.tree, off, Head(segs)))

\* SegmentTree(points, segments): the object's fields and the error, if any
SegmentTreeFields(pts, built) ==
    [err |-> built.err, total |-> Total(Len(pts)), tree |-> built.tree,
     N |-> OffsetN(Len(pts)), points |-> pts]

SegmentTreeNew(pts, segs) ==
    SegmentTreeFields(pts, BuildLoop(pts, [tree |-> NewTree(Len(pts)), err |-> "ok"],
                                     OffsetN(Len(pts)), segs))

\* lowest_incomplete: [err, val]
lowest_incomplete(off) ==
    LET lsb == LowBit(off)
    IN  IF lsb <= 0 THEN [err |-> "ValueError", val |-> 0]
        ELSE [err |-> "ok",
              val |-> (off * Scale) \div PowOnePlusLn[Log2Exact(lsb) + 1]]

\* complete(node) given the value li of lowest_incomplete(node): [err, val]
CompleteOf(li, node) ==
    IF li.err # "ok" THEN [err |-> li.err, val |-> FALSE]
    ELSE IF li.val <= 0 \/ node <= 0 THEN [err |-> "ValueError", val |-> FALSE]
    ELSE LET e == FloorLn(li.val) - FloorLn(node)
         IN  [err |-> "ok",
              val |-> (node = IF e >= 0 THEN li.val \div Pow2(e)
                                        ELSE li.val * Pow2(-e))]

\* complete(node): [err, val]
complete(off, node) == CompleteOf(lowest_incomplete(off), node)

\* a variant of Parent: the ascent walks the array one index at a time
Parent_Linear(node) == node - 1

\* the ascent to the parent node
Parent(node) == node \div 2

\* the while loop of stab_query; st = [err, count, steps, reads, stop],
\* c the value of complete(node)
RECURSIVE Ascent(_, _, _, _)
AscentStep(t, off, st, node, c) ==
    IF c.err # "ok" THEN [st EXCEPT !.err = c.err]
    ELSE IF c.val THEN [st EXCEPT !.stop = node]
    ELSE IF ~InRange(t, node) THEN [st EXCEPT !.err = "IndexError"]
    ELSE IF Parent(node) = 0
         THEN [err |-> "ok", count |-> st.count + t[ListIndex(t, node)],
               steps |-> st.steps + 1, reads |-> Append(st.reads, node),
               stop |-> 0]
         ELSE Ascent(t, off,
                     [err |-> "ok", count |-> st.count + t[ListIndex(t, node)],
                      steps |-> st.steps + 1, reads |-> Append(st.reads, node),
                      stop |-> st.stop],
                     Parent(node))

Ascent(t, off, st, node) == AscentStep(t, off, st, node, complete(off, node))

\* the leaf index stab_query starts from
QueryLeaf(pts, off, point) == bisect_right(pts, point) + off + 1

stab_query(pts, t, off, point) ==
    Ascent(t, off,
           [err |-> "ok", count |-> 0, steps |-> 0, reads |-> <<>>, stop |-> -1],
           QueryLeaf(pts, off, point))

(* --------------------------- the inputs ------------------------------- *)

\* a sorted list of n distinct coordinates with one gap: 1, 3, 4, ..., n + 1
Coordinates(n) == [i \in 1 .. n |-> IF i = 1 THEN 1 ELSE i + 1]

CoordSet(pts) == {pts[i] : i \in DOMAIN pts}

\* the query points of a tree: below, on, between and above its coordinates
QueryPoints(pts) == 0 .. (Len(pts) + 2)

\* how many segments a constructor call over n coordinates may insert
SegLimit(n) == IF n <= DeepN THEN MaxSegs ELSE 1

NoOp == [op |-> "none"]

NoFs == [reads |-> <<>>]

(* ----------------------------- Spec ----------------------------------- *)

Init ==
    /\ \E n \in 1 .. MaxN :
         /\ points = Coordinates(n)
         /\ tree = NewTree(n)
         /\ N = OffsetN(n)
    /\ segments = <<>>
    /\ phase = "build"
    /\ last = NoOp
    /\ fs = NoFs
    /\ run = NoOp

\* the constructor takes the next segment, compresses it and inserts it
InsertSegment ==
    /\ phase = "build"
    /\ Len(segments) < SegLimit(Len(points))
    /\ \E s \in CoordSet(points), e \in CoordSet(points) :
         \E res \in {InsertSegmentOp(points, tree, N, <<s, e>>)} :
             /\ tree' = res.tree
             /\ segments' = Append(segments, <<s, e>>)
             /\ last' = [op |-> "insert", seg |-> <<s, e>>,
                         l |-> Compress(points, s) + N,
                         r |-> Compress(points, e) + N,
                         before |-> tree, err |-> res.err,
                         steps |-> res.steps, writes |-> res.writes]
    /\ UNCHANGED <<points, N, phase, fs, run>>

\* a stab query on the built tree. stab_query leaves the tree as it is, so a
\* query that follows another one ends in the state it ends in right after
\* the build: queries are taken from the build states only.
StabQuery ==
    /\ phase = "build"
    /\ \E p \in QueryPoints(points) :
         \E res \in {stab_query(points, tree, N, p)} :
             last' = [op |-> "query", point |-> p,
                      leaf |-> QueryLeaf(points, N, p),
                      err |-> res.err, count |-> res.count,
                      steps |-> res.steps, reads |-> res.reads,
                      stop |-> res.stop]
    /\ phase' = "query"
    /\ UNCHANGED <<points, tree, N, segments, fs, run>>

Next == InsertSegment \/ StabQuery

Spec == Init /\ [][Next]_vars

(* ------------------------------ main() -------------------------------- *)

\* most rows of reads.csv
MaxReads == 3
\* most rows of loci.csv
MaxLoci == 2

DigitChars == <<"0", "1", "2", "3", "4", "5", "6", "7", "8", "9">>

RECURSIVE DigitsOf(_)
DigitsOf(i) ==
    IF i < 10 THEN <<DigitChars[i + 1]>>
    ELSE Append(DigitsOf(i \div 10), DigitChars[(i % 10) + 1])

\* str(i), "%s" % i: the decimal text of an integer, one character per element
Str(i) == IF i < 0 THEN <<"-">> \o DigitsOf(-i) ELSE DigitsOf(i)

DigitVal(c) == (CHOOSE d \in DOMAIN DigitChars : DigitChars[d] = c) - 1

RECURSIVE ParseDigits(_, _)
ParseDigits(s, acc) ==
    IF s = <<>> THEN acc ELSE ParseDigits(Tail(s), 10 * acc + DigitVal(Head(s)))

\* int(s) of a decimal text
ParseInt(s) == IF Head(s) = "-" THEN -ParseDigits(Tail(s), 0) ELSE ParseDigits(s, 0)

\* line.rstrip('\n')
RECURSIVE RStrip(_)
RStrip(line) ==
    IF line # <<>> /\ line[Len(line)] = "\n"
    THEN RStrip(SubSeq(line, 1, Len(line) - 1))
    ELSE line

\* list(points); points.sort()
RECURSIVE SortSet(_)
SortSet(S) ==
    IF S = {} THEN <<>>
    ELSE LET m == CHOOSE x \in S : \A y \in S : x <= y
         IN  <<m>> \o SortSet(S \ {m})

\* the set of the starts and ends of the rows of reads.csv
ReadPointSet(rows) ==
    UNION {{ParseInt(rows[i].start), ParseInt(rows[i].start) + ParseInt(rows[i].length)} :
             i \in DOMAIN rows}

\* the segments list main() makes of the rows of reads.csv
ReadSegments(rows) ==
    [i \in DOMAIN rows |->
        <<ParseInt(rows[i].start), ParseInt(rows[i].start) + ParseInt(rows[i].length)>>]

\* f.writelines("%s\n" % l for l in points)
WriteLines(pts) == [i \in DOMAIN pts |-> Append(Str(pts[i]), "\n")]

\* [int(line.rstrip('\n')) for line in open(points_file)]
ReadLines(lines) == [i \in DOMAIN lines |-> ParseInt(RStrip(lines[i]))]

\* load_points: the points it returns and points_file as it leaves it
load_points(fsys) ==
    IF ~fsys.points_file.exists
    THEN [points |-> SortSet(ReadPointSet(fsys.reads)),
          file |-> [exists |-> TRUE,
                    lines |-> WriteLines(SortSet(ReadPointSet(fsys.reads)))]]
    ELSE [points |-> ReadLines(fsys.points_file.lines), file |-> fsys.points_file]

\* a variant of PickleDump: the node counts are dumped as allocated, all zero
PickleDump_EmptyTree(obj) ==
    << <<"_SegmentTree__total", obj.total>>,
       <<"_SegmentTree__tree", [i \in 1 .. Cardinality(DOMAIN obj.tree) |-> 0]>>,
       <<"_SegmentTree__N", obj.N>>,
       <<"_SegmentTree__points", obj.points>> >>

\* pickle.dump(segmentTree, f): the instance's attributes, lists as lists
PickleDump(obj) ==
    << <<"_SegmentTree__total", obj.total>>,
       <<"_SegmentTree__tree", [i \in 1 .. Cardinality(DOMAIN obj.tree) |-> obj.tree[i - 1]]>>,
       <<"_SegmentTree__N", obj.N>>,
       <<"_SegmentTree__points", obj.points>> >>

Attr(items, key) == items[CHOOSE i \in DOMAIN items : items[i][1] = key][2]

\* pickle.load(f): the instance with the attributes of the blob
PickleLoad(items) ==
    [err |-> "ok",
     total |-> Attr(items, "_SegmentTree__total"),
     tree |-> [i \in 0 .. (Len(Attr(items, "_SegmentTree__tree")) - 1) |->
                  Attr(items, "_SegmentTree__tree")[i + 1]],
     N |-> Attr(items, "_SegmentTree__N"),
     points |-> Attr(items, "_SegmentTree__points")]

\* the positions csv.DictReader yields from loci.csv
ReadPositions(file) ==
    [k \in 1 .. (Len(file) - 1) |->
        ParseInt(file[k + 1][CHOOSE c \in DOMAIN file[1] : file[1][c] = "position"])]

LociHeader == <<"position", "coverage">>

\* the loop of main() over the positions; st = [err, rows]
RECURSIVE QueryLoop(_, _, _)
QueryStep(obj, st, positions, res) ==
    IF res.err # "ok" THEN [err |-> res.err, rows |-> st.rows]
    ELSE QueryLoop(obj,
                   [err |-> "ok",
                    rows |-> Append(st.rows, <<Head(positions), res.count>>)],
                   Tail(positions))

QueryLoop(obj, st, positions) ==
    IF positions = <<>> THEN st
    ELSE QueryStep(obj, st, positions,
                   stab_query(obj.points, obj.tree, obj.N, Head(positions)))

\* csv.writer(csvfile).writerows(loci_list)
WriteRows(loci_list) ==
    [i \in DOMAIN loci_list |->
        IF i = 1 THEN loci_list[1]
        ELSE <<Str(loci_list[i][1]), Str(loci_list[i][2])>>]

\* the first half of main(): the tree it builds or restores, and the files
MainTree(fsys) ==
    IF ~fsys.pickle.exists
    THEN [mode |-> "built",
          obj |-> SegmentTreeNew(load_points(fsys).points, ReadSegments(fsys.reads)),
          segs |-> ReadSegments(fsys.reads),
          points_file |-> load_points(fsys).file]
    ELSE [mode |-> "restored",
          obj |-> PickleLoad(fsys.pickle.items),
          segs |-> <<>>,
          points_file |-> fsys.points_file]

\* the second half of main(), given the tree t of the first half and the
\* outcome q of the loop over the positions
MainFinish(fsys, t, q) ==
    [mode |-> t.mode, obj |-> t.obj, segs |-> t.segs,
     positions |-> ReadPositions(fsys.loci),
     err |-> IF t.obj.err # "ok" THEN t.obj.err ELSE q.err,
     loci_list |-> IF t.obj.err = "ok" /\ q.err = "ok"
                   THEN <<LociHeader>> \o q.rows ELSE <<>>,
     fs |-> [reads |-> fsys.reads,
             points_file |-> t.points_file,
             pickle |-> IF t.mode = "built" /\ t.obj.err = "ok"
                        THEN [exists |-> TRUE, items |-> PickleDump(t.obj)]
                        ELSE fsys.pickle,
             loci |-> IF t.obj.err = "ok" /\ q.err = "ok"
                      THEN WriteRows(<<LociHeader>> \o q.rows)
                      ELSE fsys.loci]]

MainQueries(fsys, t) ==
    MainFinish(fsys, t,
               IF t.obj.err # "ok" THEN [err |-> t.obj.err, rows |-> <<>>]
               ELSE QueryLoop(t.obj, [err |-> "ok", rows |-> <<>>],
                              ReadPositions(fsys.loci)))

\* main()
MainRun(fsys) == MainQueries(fsys, MainTree(fsys))

\* the rows reads.csv is made of: (start, length)
ReadRows == {<<8, 1>>, <<10, 2>>, <<9, 2>>, <<11, -1>>}

\* the positions loci.csv is made of
LociPositions == {7, 9, 10, 13}

SeqsUpTo(S, k) == UNION {[1 .. m -> S] : m \in 0 .. k}

NoFile == [exists |-> FALSE]

InitMain ==
    /\ \E rows \in SeqsUpTo(ReadRows, MaxReads), ps \in SeqsUpTo(LociPositions, MaxLoci) :
         fs = [reads |-> [i \in DOMAIN rows |->
                            [start |-> Str(rows[i][1]), length |-> Str(rows[i][2])]],
               points_file |-> NoFile,
               pickle |-> NoFile,
               loci |-> <<<<"position">>>> \o [i \in DOMAIN ps |-> <<Str(ps[i])>>]]
    /\ run = NoOp
    /\ points = <<>>
    /\ tree = <<>>
    /\ N = 0
    /\ segments = <<>>
    /\ phase = "build"
    /\ last = NoOp

\* one run of main()
Main ==
    /\ \E m \in {MainRun(fs)} :
         /\ fs' = m.fs
         /\ run' = [op |-> "main", mode |-> m.mode, err |-> m.err,
                    positions |-> m.positions, loci_list |-> m.loci_list]
         /\ points' = m.obj.points
         /\ tree' = m.obj.tree
         /\ N' = m.obj.N
         /\ segments' = m.segs
    /\ phase' = "query"
    /\ UNCHANGED last

\* test_pickle: it calls load_points, which leaves the points cache behind
TestPickle ==
    /\ fs' = [fs EXCEPT !.points_file = load_points(fs).file]
    /\ run' = [op |-> "test_pickle"]
    /\ UNCHANGED <<points, tree, N, segments, phase, last>>

NextMain == Main \/ TestPickle

SpecMain == InitMain /\ [][NextMain]_vars

(* ------------------- definitions used by the properties --------------- *)

\* the number of segments of segs that cover the position p, both ends included
Covering(segs, p) ==
    Cardinality({i \in DOMAIN segs : segs[i][1] <= p /\ p <= segs[i][2]})

\* the number of segments of segs that start or end exactly at p
Touching(segs, p) ==
    Cardinality({i \in DOMAIN segs :
                   /\ segs[i][1] <= segs[i][2]
                   /\ (segs[i][1] = p \/ segs[i][2] = p)})

\* the nodes from a node up to the root, node 1 included
RECURSIVE PathNodes(_)
PathNodes(node) == IF node <= 0 THEN {} ELSE {node} \cup PathNodes(node \div 2)

\* the sum of f over the finite set S
RECURSIVE SumOver(_, _)
SumOver(f, S) ==
    IF S = {} THEN 0
    ELSE LET x == CHOOSE y \in S : TRUE IN f[x] + SumOver(f, S \ {x})

RECURSIVE FloorLog2(_)
FloorLog2(x) == IF x <= 1 THEN 0 ELSE 1 + FloorLog2(x \div 2)

\* the leaves of a tree over n coordinates
Leaves(n) == n .. (2 * n - 1)

FreshTree(pts, segs) == SegmentTreeNew(pts, segs).tree

\* what a caller of stab_query sees
Outcome(res) == [err |-> res.err, count |-> IF res.err = "ok" THEN res.count ELSE 0]

\* the outcome of stab_query on the tree t at every query point
Answers(pts, off, t) ==
    [p \in QueryPoints(pts) |-> Outcome(stab_query(pts, t, off, p))]

Reorder(segs, f) == [i \in DOMAIN segs |-> segs[f[i]]]

Upright(seg) == seg[1] <= seg[2]

(* ------------------------------ properties ---------------------------- *)

\* C1: a stab query that returns gives the number of inserted segments
\* (start, end) with start <= point <= end, for a point on a coordinate,
\* between two coordinates, below the smallest or above the largest.
C1_CountInvariant ==
    (last.op = "query" /\ last.err = "ok")
        => last.count = Covering(segments, last.point)

\* C2: a stab query that returns at a point counts every inserted segment
\* (start <= end) that starts or ends exactly at that point.
C2_BoundaryExactness ==
    (last.op = "query" /\ last.err = "ok")
        => last.count >= Touching(segments, last.point)

\* C3: stab_query never ends in an error and returns a non-negative count,
\* for every coordinate count n >= 1 and every point.
C3_NoError ==
    last.op = "query" => (last.err = "ok" /\ last.count >= 0)

\* C4: inserting the same segments in any order gives the same node counts
\* and the same stab_query answer for every point.
C4_OrderIndependence ==
    last.op = "insert" =>
        \A here \in {Answers(points, N, tree)} :
            \A f \in Permutations(DOMAIN segments) :
                \A other \in {FreshTree(points, Reorder(segments, f))} :
                    other = tree /\ Answers(points, N, other) = here

C4_Witness ==
    /\ last.op = "insert"
    /\ Len(segments) = 2
    /\ segments[1] # segments[2]
    /\ Upright(segments[1]) /\ Upright(segments[2])
    /\ \E k \in DOMAIN tree : tree[k] = 2

\* what main() gives when it builds the tree afresh from the interval source
FreshRun(reads, positions) ==
    QueryLoop(SegmentTreeNew(SortSet(ReadPointSet(reads)), ReadSegments(reads)),
              [err |-> "ok", rows |-> <<>>], positions)

\* C5: a run of main() that restores the persisted tree ends as a run that
\* builds the tree afresh from the same interval source: with the same error,
\* or with one header record followed by the (position, coverage) records of
\* the fresh tree in the order of the point source.
C5_SnapshotRoundTrip ==
    (run.op = "main" /\ run.mode = "restored") =>
        LET fresh == FreshRun(fs.reads, run.positions)
        IN  /\ run.err = fresh.err
            /\ run.err = "ok" =>
                 /\ run.loci_list = <<LociHeader>> \o fresh.rows
                 /\ Len(run.loci_list) = Len(run.positions) + 1
                 /\ \A i \in DOMAIN run.positions :
                      run.loci_list[i + 1][1] = run.positions[i]

C5_Witness ==
    /\ run.op = "main"
    /\ run.mode = "restored"
    /\ run.err = "ok"
    /\ Len(run.positions) = 2
    /\ run.positions[1] > run.positions[2]
    /\ run.loci_list[2][2] > 0
    /\ run.loci_list[3][2] > run.loci_list[2][2]

\* C6: the value a stab query returns is the sum of the node counts over the
\* whole path from the node it starts at up to the root, node 1 included:
\* the node the ascent stops at and its ancestors hold no count.
C6_StopLosesNothing ==
    (last.op = "query" /\ last.err = "ok")
        => last.count = SumOver(tree, PathNodes(last.leaf))

\* C7: one call of insert with leaves l <= r increments, on the path from a
\* leaf x to the root, exactly one node (by one) when l <= x <= r and none
\* otherwise.
C7_CanonicalDecomposition ==
    (last.op = "insert" /\ last.l <= last.r) =>
        \A delta \in {[k \in DOMAIN tree |-> tree[k] - last.before[k]]} :
            /\ \A k \in DOMAIN tree : delta[k] >= 0
            /\ \A x \in Leaves(Len(points)) :
                 SumOver(delta, PathNodes(x))
                   = IF last.l <= x /\ x <= last.r THEN 1 ELSE 0

C7_Witness ==
    /\ last.op = "insert"
    /\ Len(points) = 6
    /\ last.l = 7 /\ last.r = 10
    /\ Len(last.writes) = 3

\* C8: inserting a segment whose start is greater than its end changes no node
\* count, so the tree is the one built from the other segments alone and
\* answers every stab query as that tree does.
C8_InvertedNoEffect ==
    last.op = "insert" =>
        /\ ~Upright(last.seg) => (tree = last.before /\ last.writes = <<>>)
        /\ \A kept \in {FreshTree(points, SelectSeq(segments, Upright))} :
               kept = tree /\ Answers(points, N, kept) = Answers(points, N, tree)

C8_Witness ==
    /\ last.op = "insert"
    /\ Len(segments) = 2
    /\ Upright(segments[1])
    /\ ~Upright(segments[2])
    /\ \E k \in DOMAIN tree : tree[k] = 1

\* C9: the loop of insert and the ascent of stab_query end after at most
\* floor(log2(2n)) + 1 iterations.
C9_LogSteps ==
    last.op \in {"insert", "query"}
        => last.steps <= FloorLog2(2 * Len(points)) + 1

C9_Witness ==
    /\ last.op = "query"
    /\ last.err = "ok"
    /\ last.stop = 0
    /\ last.steps = FloorLog2(2 * Len(points)) + 1

\* C10: every index insert writes and stab_query reads lies in the node array
\* (0 .. 2n), also for points below and above all coordinates; the leaves of
\* the coordinates are n .. 2n-1, in increasing order.
C10_IndexSafety ==
    LET n == Len(points)
    IN  /\ last.op = "insert" =>
              (last.err = "ok" /\ \A i \in DOMAIN last.writes :
                                     0 <= last.writes[i] /\ last.writes[i] <= 2 * n)
        /\ last.op = "query" =>
              (last.err # "IndexError" /\ \A i \in DOMAIN last.reads :
                                             0 <= last.reads[i] /\ last.reads[i] <= 2 * n)
        /\ \A i \in DOMAIN points : Compress(points, points[i]) + N = n + i - 1

C10_Witness ==
    /\ last.op = "query"
    /\ last.point = 0
    /\ Len(last.reads) >= 3
    /\ Len(segments) >= 1

====
